---- MODULE Spec2Model ----
(***************************************************************************)
(* A model of juju/mgoutil: getStructInfo (bson.go), isZero (bson.go) and  *)
(* AsUpdate with its helpers (update.go).                                  *)
(*                                                                         *)
(* Go values are modelled as records of one shape (GoValue below); a Go    *)
(* map is a set of entries [k, v] with unique k plus a nil flag; a struct  *)
(* type is the sequence of its field declarations, which is also its       *)
(* identity (two identical struct types are one reflect.Type).             *)
(* Field ordinals keep Go's 0-based numbering.                             *)
(*                                                                         *)
(* A string the code takes apart, lower-cases or uses as a document key    *)
(* (a field name, the key part of a tag, a map key) is the sequence of its *)
(* characters, <<"_", "i", "d">> for "_id"; the characters are ASCII. So   *)
(* is a string value. The flags of a tag once split off and the messages   *)
(* of errors, which the code only passes on, are atoms.                    *)
(***************************************************************************)
EXTENDS Integers, Sequences, FiniteSets, TLC

VARIABLES
    pc,         \* position of the AsUpdate call: resolve, dispatch, describe,
                \* done, panic
    x,          \* the argument of AsUpdate
    v,          \* the reflect.Value the resolution loop currently holds
    u,          \* the Update returned
    err,        \* the error returned
    addr,       \* whether v is addressable (v.CanAddr())
    hooks,      \* number of GetBSON invocations made by the call
    structMap,  \* the process-wide descriptor cache
    readers,    \* threads holding structMapMutex for reading
    writer,     \* threads holding structMapMutex for writing
    stack,      \* per goroutine: the stack of getStructInfo frames
    ret,        \* per goroutine: the value returned by the frame that last returned
    calls,      \* per goroutine: whether its getStructInfo call has started
    writes,     \* log of cache insertions, in order
    observed    \* the entries cache lookups have found

vars == <<pc, x, v, u, err, addr, hooks, structMap, readers, writer, stack, ret,
          calls, writes, observed>>

seqVars == <<pc, x, v, u, err, addr, hooks>>
concVars == <<readers, writer, stack, ret, calls, writes, observed>>

-----------------------------------------------------------------------------
(* Bounds *)

\* Largest number of fields declared directly in a top-level record type.
MaxFields == 2

\* Number of goroutines calling getStructInfo concurrently.
NumThreads == 2

-----------------------------------------------------------------------------
(* Go maps: a set of entries with unique keys *)

MapHas(m, k) == \E e \in m : e.k = k

MapGet(m, k) == (CHOOSE e \in m : e.k = k).v

MapPut(m, k, val) == {e \in m : e.k # k} \cup {[k |-> k, v |-> val]}

MapKeys(m) == {e.k : e \in m}

-----------------------------------------------------------------------------
(* Go values *)

NoType == <<>>

GoValue(kind, n, s, isnil, fs, m, t) ==
    [kind |-> kind, n |-> n, s |-> s, nil |-> isnil, fs |-> fs, m |-> m, t |-> t,
     chars |-> <<>>]

\* The zero reflect.Value: reflect.ValueOf(nil), or Elem() of a nil pointer.
Invalid == GoValue("invalid", 0, "", TRUE, <<>>, {}, NoType)

\* A nil interface{} stored in a map (u.Unset[key] = nil).
NilInterface == GoValue("interface", 0, "", TRUE, <<>>, {}, NoType)

IntV(n) == GoValue("int", n, "", FALSE, <<>>, {}, NoType)

UintV(n) == GoValue("uint", n, "", FALSE, <<>>, {}, NoType)

\* A string value; chars holds its characters.
StrV(chars) == [GoValue("string", 0, "", FALSE, <<>>, {}, NoType) EXCEPT !.chars = chars]

BoolV(b) == GoValue("bool", IF b THEN 1 ELSE 0, "", FALSE, <<>>, {}, NoType)

FuncV == GoValue("func", 0, "", FALSE, <<>>, {}, NoType)

NilPtr == GoValue("ptr", 0, "", TRUE, <<>>, {}, NoType)

PtrTo(val) == GoValue("ptr", 0, "", FALSE, <<val>>, {}, NoType)

\* A map value; s holds its key type: "string" for the type string, "K"
\* for a named type declared as `type K string`, "int" for int.
MapV(keyType, isnil, m) == GoValue("map", 0, keyType, isnil, <<>>, m, NoType)

\* reflect.Type.Kind() of a key type.
KindOfKeyType(keyType) == IF keyType = "K" THEN "string" ELSE keyType

\* A slice value; n is its length and t the struct type of its elements
\* (NoType when they are no structs).
SliceV(elemType, elems) == GoValue("slice", Len(elems), "", FALSE, elems, {}, elemType)

StructV(t, fs) == GoValue("struct", 0, "", FALSE, fs, {}, t)

\* *typeWithGetter: result is fs[1], err is s ("" for no error).
GetterV(isnil, result, e) == GoValue("getter", 0, e, isnil, <<result>>, {}, NoType)

-----------------------------------------------------------------------------
(* Errors *)

\* The empty string, as a sequence of characters.
NoKey == <<>>

\* kind tells the errors of the code apart; key and st are the key and the
\* type the message names, msg the message of a wrapped error.
GoError(kind, key, st) == [kind |-> kind, key |-> key, st |-> st, msg |-> ""]

NoErr == GoError("", NoKey, NoType)

-----------------------------------------------------------------------------
(* Struct types *)

\* One reflect.StructField. Tag is the bson tag already split at its commas
\* (strings.Split(tag, ",")); Elem is the struct type of a struct field.
\* KeyType is the key type of a map field, named as in MapV ("" otherwise).
FieldDecl(name, tag, kind, exported, anonymous, elem, keyType) ==
    [Name |-> name, Tag |-> tag, Kind |-> kind, Exported |-> exported,
     Anonymous |-> anonymous, Elem |-> elem, KeyType |-> keyType]

\* field.PkgPath != "" && !field.Anonymous
IsPrivate(field) == ~field.Exported /\ ~field.Anonymous

\* unicode.ToLower on an ASCII character.
LowerChar(c) ==
    CASE c = "A" -> "a"
      [] c = "B" -> "b"
      [] c = "C" -> "c"
      [] c = "D" -> "d"
      [] c = "E" -> "e"
      [] c = "F" -> "f"
      [] c = "G" -> "g"
      [] c = "H" -> "h"
      [] c = "I" -> "i"
      [] c = "J" -> "j"
      [] c = "K" -> "k"
      [] c = "L" -> "l"
      [] c = "M" -> "m"
      [] c = "N" -> "n"
      [] c = "O" -> "o"
      [] c = "P" -> "p"
      [] c = "Q" -> "q"
      [] c = "R" -> "r"
      [] c = "S" -> "s"
      [] c = "T" -> "t"
      [] c = "U" -> "u"
      [] c = "V" -> "v"
      [] c = "W" -> "w"
      [] c = "X" -> "x"
      [] c = "Y" -> "y"
      [] c = "Z" -> "z"
      [] OTHER -> c

\* strings.ToLower
RECURSIVE ToLower(_)
ToLower(s) ==
    IF s = <<>> THEN <<>> ELSE <<LowerChar(Head(s))>> \o ToLower(Tail(s))

\* time.Time: struct{ wall uint64; ext int64; loc *Location }, for which
\* typeTime stands.
typeTime ==
    <<FieldDecl(<<"w", "a", "l", "l">>, <<NoKey>>, "uint", FALSE, FALSE, NoType, ""),
      FieldDecl(<<"e", "x", "t">>, <<NoKey>>, "int", FALSE, FALSE, NoType, ""),
      FieldDecl(<<"l", "o", "c">>, <<NoKey>>, "ptr", FALSE, FALSE, NoType, "")>>

\* A time.Time; n is the instant, kept in ext, 0 the zero instant.
TimeV(n) == StructV(typeTime, <<UintV(0), IntV(n), NilPtr>>)

\* bson.Raw: struct{ Kind byte; Data []byte }, for which typeRaw stands.
typeRaw ==
    <<FieldDecl(<<"K", "i", "n", "d">>, <<NoKey>>, "uint", TRUE, FALSE, NoType, ""),
      FieldDecl(<<"D", "a", "t", "a">>, <<NoKey>>, "slice", TRUE, FALSE, NoType, "")>>

\* bson.DocElem: struct{ Name string; Value interface{} }, the element type
\* of bson.D.
typeDocElem ==
    <<FieldDecl(<<"N", "a", "m", "e">>, <<NoKey>>, "string", TRUE, FALSE, NoType, ""),
      FieldDecl(<<"V", "a", "l", "u", "e">>, <<NoKey>>, "interface", TRUE, FALSE, NoType, "")>>

DocElemV(name, value) == StructV(typeDocElem, <<StrV(name), value>>)

\* A []byte. Its bytes are not told apart one by one: s says what they are,
\* "empty" (no byte), "document" (a well-formed BSON document, whose
\* elements fs holds in order, as DocElems), "value" (one encoded element
\* value, which fs holds) or "malformed" (bytes that are no document); n is
\* 0 exactly when the slice is empty.
BytesV(content, elems) ==
    GoValue("slice", IF content = "empty" THEN 0 ELSE 1, content, FALSE,
            IF content \in {"document", "value"} THEN elems ELSE <<>>,
            {}, NoType)

\* bson.Raw{Kind, Data}, Data of the given content.
RawV(kind, content, elems) ==
    StructV(typeRaw, <<UintV(kind), BytesV(content, elems)>>)

\* What reflect remembers of the way a Value was obtained: "" (freely
\* usable), "embed" (read from an unexported embedded field, flagEmbedRO)
\* or "sticky" (read from or through another unexported field,
\* flagStickyRO). Value.Interface() panics unless it is "".
\* FieldFlag is the flag of v.Field(i) for a v of the given flag and the
\* field declaration f.
FieldFlag(flag, f) ==
    IF flag = "sticky" THEN "sticky"
    ELSE IF f.Exported THEN ""
    ELSE IF f.Anonymous THEN "embed"
    ELSE "sticky"

-----------------------------------------------------------------------------
(* isZero *)

\* isZero of a Value with the given flag: "true", "false", or "panic" when
\* v.Interface() is reached (bson.go 66) on a Value that does not allow it.
RECURSIVE isZero(_, _)
RECURSIVE isZeroFields(_, _, _)
isZero(val, flag) ==
    CASE val.kind = "string" -> IF Len(val.chars) = 0 THEN "true" ELSE "false"
      [] val.kind \in {"ptr", "getter", "interface"} -> IF val.nil THEN "true" ELSE "false"
      [] val.kind = "slice" -> IF val.n = 0 THEN "true" ELSE "false"
      [] val.kind = "map" -> IF Cardinality(val.m) = 0 THEN "true" ELSE "false"
      [] val.kind \in {"int", "uint", "float"} -> IF val.n = 0 THEN "true" ELSE "false"
      [] val.kind = "bool" -> IF val.n = 0 THEN "true" ELSE "false"
      [] val.kind = "struct" ->
            IF val.t = typeTime
            THEN IF flag # "" THEN "panic"
                 ELSE IF val.fs[1].n = 0 /\ val.fs[2].n = 0 THEN "true" ELSE "false"
            ELSE isZeroFields(val, flag, 1)
      [] OTHER -> "false"

\* The loop over the fields (bson.go 69-76), from the i-th (1-based) on.
isZeroFields(val, flag, i) ==
    IF i > Len(val.fs) THEN "true"
    ELSE IF IsPrivate(val.t[i]) THEN isZeroFields(val, flag, i + 1)
    ELSE LET z == isZero(val.fs[i], FieldFlag(flag, val.t[i]))
         IN  IF z = "true" THEN isZeroFields(val, flag, i + 1) ELSE z

-----------------------------------------------------------------------------
(* structInfo and fieldInfo *)

NilInline == <<>>

fieldInfo(key, num, omitEmpty, minSize, inline) ==
    [Key |-> key, Num |-> num, OmitEmpty |-> omitEmpty, MinSize |-> minSize,
     Inline |-> inline]

\* The Zero member (reflect.New(st).Elem()) is not read by AsUpdate and is left out.
structInfo(fieldsMap, fieldsList, inlineMap) ==
    [FieldsMap |-> fieldsMap, FieldsList |-> fieldsList, InlineMap |-> inlineMap]

NoInfo == structInfo({}, <<>>, -2)

\* What a getStructInfo call, or one iteration of its loop, ends with.
\* status: "ok" (a descriptor), "err" (an error), "panic" (the call panics).
Outcome(status, sinfo, e) == [status |-> status, sinfo |-> sinfo, err |-> e]

TagFlags(field) == {field.Tag[j] : j \in 2..Len(field.Tag)}

KnownFlags == {"omitempty", "minsize", "inline"}

\* The document key of a field that is not inlined (bson.go 189-193).
FieldKey(field) ==
    IF field.Tag[1] # NoKey THEN field.Tag[1] ELSE ToLower(field.Name)

\* Whether the loop of getStructInfo needs the descriptor of the field's
\* type, i.e. reaches the recursive call at bson.go 166.
NeedsSub(field) ==
    /\ ~IsPrivate(field)
    /\ ~(Len(field.Tag) = 1 /\ field.Tag[1] = <<"-">>)
    /\ TagFlags(field) \subseteq KnownFlags
    /\ "inline" \in TagFlags(field)
    /\ field.Kind = "struct"

\* Prefixing of the inline path of a spliced descriptor (bson.go 175-179).
SplicePath(i, finfo) ==
    IF finfo.Inline = NilInline
    THEN <<i, finfo.Num>>
    ELSE <<i>> \o finfo.Inline

RECURSIVE SpliceUnchecked(_, _, _, _, _)
SpliceUnchecked(st, i, list, j, acc) ==
    IF j > Len(list) THEN Outcome("ok", acc, NoErr)
    ELSE LET finfo == [list[j] EXCEPT !.Inline = SplicePath(i, list[j])]
         IN  SpliceUnchecked(st, i, list, j + 1,
                             structInfo(MapPut(acc.FieldsMap, finfo.Key, finfo),
                                        Append(acc.FieldsList, finfo),
                                        acc.InlineMap))

\* The loop over sinfo.FieldsList of an inlined record (bson.go 170-182),
\* from its j-th element on. acc is the descriptor under construction.
RECURSIVE Splice(_, _, _, _, _)
Splice(st, i, list, j, acc) ==
    IF j > Len(list) THEN Outcome("ok", acc, NoErr)
    ELSE IF MapHas(acc.FieldsMap, list[j].Key)
    THEN Outcome("err", NoInfo, GoError("dup", list[j].Key, st))
    ELSE LET finfo == [list[j] EXCEPT !.Inline = SplicePath(i, list[j])]
         IN  Splice(st, i, list, j + 1,
                    structInfo(MapPut(acc.FieldsMap, finfo.Key, finfo),
                               Append(acc.FieldsList, finfo),
                               acc.InlineMap))

\* One iteration of the loop of getStructInfo (bson.go 120-202) for the
\* field with ordinal i (0-based) of st. acc is the descriptor built so
\* far; sub is what the recursive call for the field's type returned and
\* is read only when NeedsSub holds.
FieldStep(st, i, acc, sub) ==
    LET field == st[i + 1]
        flags == TagFlags(field)
        info  == fieldInfo(FieldKey(field), i, "omitempty" \in flags,
                           "minsize" \in flags, NilInline)
    IN  IF IsPrivate(field) THEN Outcome("ok", acc, NoErr)
        ELSE IF Len(field.Tag) = 1 /\ field.Tag[1] = <<"-">> THEN Outcome("ok", acc, NoErr)
        ELSE IF ~(flags \subseteq KnownFlags) THEN Outcome("panic", NoInfo, NoErr)
        ELSE IF "inline" \in flags THEN
            CASE field.Kind = "map" ->
                    IF acc.InlineMap >= 0
                    THEN Outcome("err", NoInfo, GoError("multi_inline", NoKey, st))
                    ELSE IF field.KeyType # "string"
                    THEN Outcome("err", NoInfo, GoError("inline_map_key", NoKey, st))
                    ELSE Outcome("ok", [acc EXCEPT !.InlineMap = i], NoErr)
              [] field.Kind = "struct" ->
                    IF sub.status # "ok" THEN sub
                    ELSE Splice(st, i, sub.sinfo.FieldsList, 1, acc)
              [] OTHER -> Outcome("panic", NoInfo, NoErr)
        ELSE IF MapHas(acc.FieldsMap, info.Key)
        THEN Outcome("err", NoInfo, GoError("dup", info.Key, st))
        ELSE Outcome("ok",
                     structInfo(MapPut(acc.FieldsMap, info.Key, info),
                                Append(acc.FieldsList, info),
                                acc.InlineMap),
                     NoErr)

\* The empty descriptor a call starts from (bson.go 116-119).
EmptyInfo == structInfo({}, <<>>, -1)

CacheFoundNever(cache, st) == FALSE

\* The lookup of bson.go 111.
CacheFound(cache, st) == MapHas(cache, st)

\* getStructInfo as a function: the call run to completion by one goroutine
\* while no other is in it. cache is structMap; the result carries the
\* cache afterwards.
RECURSIVE getStructInfo(_, _)
RECURSIVE getStructInfoLoop(_, _, _, _)
getStructInfoLoop(cache, st, i, acc) ==
    IF i = Len(st)
    THEN [cache |-> MapPut(cache, st, acc), out |-> Outcome("ok", acc, NoErr)]
    ELSE LET subr == IF NeedsSub(st[i + 1])
                     THEN getStructInfo(cache, st[i + 1].Elem)
                     ELSE [cache |-> cache, out |-> Outcome("ok", NoInfo, NoErr)]
             step == FieldStep(st, i, acc, subr.out)
         IN  IF step.status = "ok"
             THEN getStructInfoLoop(subr.cache, st, i + 1, step.sinfo)
             ELSE [cache |-> subr.cache, out |-> step]

getStructInfo(cache, st) ==
    IF CacheFound(cache, st)
    THEN [cache |-> cache, out |-> Outcome("ok", MapGet(cache, st), NoErr)]
    ELSE getStructInfoLoop(cache, st, 0, EmptyInfo)

-----------------------------------------------------------------------------
(* Update *)

\* The key of the document identity.
IdKey == <<"_", "i", "d">>

\* A map member of Update: nil, or a made map with its entries.
NilMap == [nil |-> TRUE, m |-> {}]

MadeMapLazily(m) == [nil |-> m = {}, m |-> m]

MadeMap(m) == [nil |-> FALSE, m |-> m]

Update(set, unset) == [Set |-> set, Unset |-> unset]

\* Update{}
ZeroUpdate == Update(NilMap, NilMap)

\* What AsUpdate or one of its helpers ends with.
Result(status, upd, e) == [status |-> status, u |-> upd, err |-> e]

\* v.FieldByIndex(index) for a v of the given flag: the Value and its flag;
\* v.Field(n) is the case of a one-element index.
RECURSIVE FieldByIndex(_, _, _)
FieldByIndex(val, flag, index) ==
    LET f == val.t[index[1] + 1]
        fl == FieldFlag(flag, f)
    IN  IF Len(index) = 1 THEN [v |-> val.fs[index[1] + 1], flag |-> fl]
        ELSE FieldByIndex(val.fs[index[1] + 1], fl, Tail(index))

\* The loop over the keys of the inline map m (update.go 121-129); order is
\* the order in which Go's map iteration yields the keys, m.flag the flag
\* the Values of its entries inherit (MapIndex).
RECURSIVE InlineMapLoop(_, _, _, _, _)
InlineMapLoop(sinfo, m, order, j, set) ==
    IF j > Len(order) THEN Result("ok", Update(MadeMap(set), MadeMap({})), NoErr)
    ELSE LET ks == order[j]
         IN  IF MapHas(sinfo.FieldsMap, ks)
             THEN Result("err", ZeroUpdate, GoError("conflict", ks, NoType))
             ELSE IF ks = IdKey
             THEN InlineMapLoop(sinfo, m, order, j + 1, set)
             ELSE IF m.flag # ""
             THEN Result("panic", ZeroUpdate, NoErr)
             ELSE InlineMapLoop(sinfo, m, order, j + 1,
                                MapPut(set, ks, MapGet(m.v.m, ks)))

\* The decision update.go 142-146 takes for one field; value is the Value
\* read from the field and its flag.
PlaceField(info, value, upd) ==
    LET z == IF info.OmitEmpty THEN isZero(value.v, value.flag) ELSE "false"
    IN  IF z = "panic" THEN Result("panic", ZeroUpdate, NoErr)
        ELSE IF z = "true"
        THEN Result("ok",
                    Update(upd.Set, MadeMap(MapPut(upd.Unset.m, info.Key, NilInterface))),
                    NoErr)
        ELSE IF value.flag # "" THEN Result("panic", ZeroUpdate, NoErr)
        ELSE Result("ok",
                    Update(MadeMap(MapPut(upd.Set.m, info.Key, value.v)), upd.Unset),
                    NoErr)

SkipsNoField(info) == FALSE

\* Whether the loop over sinfo.FieldsList passes a field over (update.go 134).
SkipsField(info) == info.Key = IdKey

RECURSIVE FieldsLoop(_, _, _, _)
FieldsLoopStoppingEarly(sinfo, val, j, upd) ==
    IF j >= Len(sinfo.FieldsList) THEN Result("ok", upd, NoErr)
    ELSE LET info == sinfo.FieldsList[j]
             value == IF info.Inline = NilInline
                      THEN FieldByIndex(val, "", <<info.Num>>)
                      ELSE FieldByIndex(val, "", info.Inline)
             placed == PlaceField(info, value, upd)
         IN  IF SkipsField(info) THEN FieldsLoop(sinfo, val, j + 1, upd)
             ELSE IF placed.status # "ok" THEN placed
             ELSE FieldsLoop(sinfo, val, j + 1, placed.u)

\* The loop over sinfo.FieldsList (update.go 133-147), from its j-th element on.
FieldsLoop(sinfo, val, j, upd) ==
    IF j > Len(sinfo.FieldsList) THEN Result("ok", upd, NoErr)
    ELSE LET info == sinfo.FieldsList[j]
             value == IF info.Inline = NilInline
                      THEN FieldByIndex(val, "", <<info.Num>>)
                      ELSE FieldByIndex(val, "", info.Inline)
             placed == PlaceField(info, value, upd)
         IN  IF SkipsField(info) THEN FieldsLoop(sinfo, val, j + 1, upd)
             ELSE IF placed.status # "ok" THEN placed
             ELSE FieldsLoop(sinfo, val, j + 1, placed.u)

\* structAsUpdate (update.go 110-149) from the return of its call of
\* getStructInfo on: out is what that call ended with, order the order in
\* which the iteration over the inline map yields its keys.
structAsUpdate(out, val, order) ==
    LET sinfo == out.sinfo
        m == FieldByIndex(val, "", <<sinfo.InlineMap>>)
        first == IF sinfo.InlineMap >= 0 /\ Cardinality(m.v.m) # 0
                 THEN InlineMapLoop(sinfo, m, order, 1, {})
                 ELSE Result("ok", Update(MadeMap({}), MadeMap({})), NoErr)
    IN  IF out.status # "ok"
        THEN Result(out.status, ZeroUpdate, out.err)
        ELSE IF first.status # "ok"
        THEN first
        ELSE FieldsLoop(sinfo, val, 1, first.u)

\* mapAsUpdate (update.go 163-179).
mapAsUpdate(val) ==
    IF KindOfKeyType(val.s) # "string"
    THEN Result("err", ZeroUpdate, GoError("mapkey", NoKey, NoType))
    ELSE Result("ok",
                Update(MadeMap({e \in val.m : e.k # IdKey}), MadeMap({})),
                NoErr)

\* The element kind byte the encoder writes for a value.
BsonKind(val) ==
    CASE val.kind = "string" -> 2
      [] val.kind = "slice" -> 4
      [] val.kind = "bool" -> 8
      [] val.kind = "interface" -> 10
      [] val.kind = "int" -> 16
      [] OTHER -> 3

\* Whether the encoder can write the value as an element; the values the
\* model puts into documents are integers, strings, booleans, nil and
\* functions, and a function is refused.
CanEncode(val) == val.kind \notin {"func", "invalid"}

Digit(d) ==
    CASE d = 0 -> "0" [] d = 1 -> "1" [] d = 2 -> "2" [] d = 3 -> "3" [] d = 4 -> "4"
      [] d = 5 -> "5" [] d = 6 -> "6" [] d = 7 -> "7" [] d = 8 -> "8" [] d = 9 -> "9"

\* strconv.Itoa of a natural number.
RECURSIVE Itoa(_)
Itoa(i) == IF i < 10 THEN <<Digit(i)>> ELSE Itoa(i \div 10) \o <<Digit(i % 10)>>

\* The elements a slice is encoded with: those of a bson.D under their
\* names, those of another slice under their indices.
RECURSIVE SliceElems(_, _)
SliceElems(val, i) ==
    IF i = 0 THEN <<>>
    ELSE Append(SliceElems(val, i - 1),
                IF val.t = typeDocElem
                THEN DocElemV(val.fs[i].fs[1].chars, val.fs[i].fs[2])
                ELSE DocElemV(Itoa(i - 1), val.fs[i]))

\* bson.Marshal as AsUpdate uses it, on a value that is neither a map nor a
\* struct other than bson.Raw. A bson.Raw, or a pointer to one, of kind 0x03
\* or 0x00 with Data that is not empty is encoded by copying its Data, well
\* formed or not; a slice whose elements can be encoded is encoded as the
\* document of its elements; every other value is refused. (The model
\* passes no []byte but inside a Raw.)
Marshal(val) ==
    LET raw == IF val.kind = "ptr" /\ ~val.nil THEN val.fs[1] ELSE val
        elems == SliceElems(raw, Len(raw.fs))
    IN  IF raw.kind = "struct" /\ raw.t = typeRaw
        THEN IF raw.fs[1].n \in {0, 3} /\ raw.fs[2].s # "empty"
             THEN [ok |-> TRUE, data |-> raw.fs[2]]
             ELSE [ok |-> FALSE, data |-> BytesV("empty", <<>>)]
        ELSE IF raw.kind = "slice" /\ raw.s = ""
                /\ \A i \in 1..Len(elems) : CanEncode(elems[i].fs[2])
        THEN [ok |-> TRUE, data |-> BytesV("document", elems)]
        ELSE [ok |-> FALSE, data |-> BytesV("empty", <<>>)]

\* The map the decoder fills from the first i elements of a document, a
\* later element replacing an earlier one of the same name: every element
\* is kept as a Raw of its kind holding its encoded value (no byte for
\* null).
RECURSIVE Decoded(_, _)
Decoded(elems, i) ==
    IF i = 0 THEN {}
    ELSE LET name == elems[i].fs[1].chars
             value == elems[i].fs[2]
         IN  MapPut(Decoded(elems, i - 1), name,
                    StructV(typeRaw,
                            <<UintV(BsonKind(value)),
                              IF value.kind = "interface"
                              THEN BytesV("empty", <<>>)
                              ELSE BytesV("value", <<value>>)>>))

\* bson.Unmarshal into a map[string]bson.Raw: data that is not a well-formed
\* document is refused.
Unmarshal(data) ==
    IF data.s # "document"
    THEN [ok |-> FALSE, m |-> MapV("string", TRUE, {})]
    ELSE [ok |-> TRUE, m |-> MapV("string", FALSE, Decoded(data.fs, Len(data.fs)))]

\* nonStructAsUpdate (update.go 151-161).
nonStructAsUpdate(val) ==
    LET enc == Marshal(val)
        dec == Unmarshal(enc.data)
    IN  IF ~enc.ok
        THEN Result("err", ZeroUpdate, GoError("marshal", NoKey, NoType))
        ELSE IF ~dec.ok
        THEN Result("err", ZeroUpdate, GoError("unmarshal", NoKey, NoType))
        ELSE mapAsUpdate(dec.m)

-----------------------------------------------------------------------------
(* The record types and values the calls are made on *)

fA  == FieldDecl(<<"A">>, <<NoKey>>, "int", TRUE, FALSE, NoType, "")
fAo == FieldDecl(<<"A">>, <<NoKey, "omitempty", "minsize">>, "int", TRUE, FALSE, NoType, "")
fX  == FieldDecl(<<"X">>, <<<<"a">>, "omitempty">>, "ptr", TRUE, FALSE, NoType, "")
fId == FieldDecl(<<"I", "d">>, <<IdKey, "omitempty">>, "string", TRUE, FALSE, NoType, "")
fp  == FieldDecl(<<"p">>, <<NoKey>>, "int", FALSE, FALSE, NoType, "")
fN  == FieldDecl(<<"N">>, <<<<"-">>>>, "int", TRUE, FALSE, NoType, "")
fM  == FieldDecl(<<"M">>, <<NoKey, "inline">>, "map", TRUE, FALSE, NoType, "string")
fM2 == FieldDecl(<<"M", "2">>, <<NoKey, "inline">>, "map", TRUE, FALSE, NoType, "string")

\* B struct{ p int; A int } `bson:",omitempty"`: a nested record, not inlined.
fBo == FieldDecl(<<"B">>, <<NoKey, "omitempty">>, "struct", TRUE, FALSE, <<fp, fA>>, "")

\* N map[string]int: a map that is not inlined.
fNm == FieldDecl(<<"N">>, <<NoKey>>, "map", TRUE, FALSE, NoType, "string")

\* MK map[K]int `bson:",inline"`, with type K string.
fMK == FieldDecl(<<"M", "K">>, <<NoKey, "inline">>, "map", TRUE, FALSE, NoType, "K")

\* T time.Time `bson:",omitempty"`
fT == FieldDecl(<<"T">>, <<NoKey, "omitempty">>, "struct", TRUE, FALSE, typeTime, "")

\* R bson.Raw `bson:",omitempty"`
fR == FieldDecl(<<"R">>, <<NoKey, "omitempty">>, "struct", TRUE, FALSE, typeRaw, "")

\* Embedded fields of unexported types: type inner struct{ A int }, embedded
\* plainly, with omitempty and inlined; type m map[string]int, inlined;
\* type t = time.Time with omitempty.
fE  == FieldDecl(<<"i", "n", "n", "e", "r">>, <<NoKey>>, "struct", FALSE, TRUE, <<fA>>, "")
fEo == FieldDecl(<<"i", "n", "n", "e", "r">>, <<NoKey, "omitempty">>, "struct",
                 FALSE, TRUE, <<fA>>, "")
fEi == FieldDecl(<<"i", "n", "n", "e", "r">>, <<NoKey, "inline">>, "struct",
                 FALSE, TRUE, <<fA>>, "")
fEm == FieldDecl(<<"m">>, <<NoKey, "inline">>, "map", FALSE, TRUE, NoType, "string")
fEt == FieldDecl(<<"t">>, <<NoKey, "omitempty">>, "struct", FALSE, TRUE, typeTime, "")

fInline(name, sub) ==
    FieldDecl(<<name>>, <<NoKey, "inline">>, "struct", TRUE, FALSE, sub, "")

\* Records inlined at the second level, and at the first.
LeafTypes == {<<fAo>>, <<fM>>}

SubShapes == {fA, fBo, fX, fId, fM, fN} \cup {fInline("U", t) : t \in LeafTypes}

SubTypes == {<<>>, <<fA, fBo>>} \cup {<<f>> : f \in SubShapes}

TopShapes ==
    {fA, fAo, fBo, fX, fId, fp, fM, fM2}
        \cup {fInline("V", t) : t \in SubTypes}
        \cup {fInline("W", <<f>>) : f \in {fA, fX, fM}}

\* Go refuses a struct type that declares one field name twice.
UniqueNames(st) ==
    \A i, j \in 1..Len(st) : st[i].Name = st[j].Name => i = j

RECURSIVE ToSeq(_, _)
ToSeq(f, n) == IF n = 0 THEN <<>> ELSE Append(ToSeq(f, n - 1), f[n])

\* The record types with n fields declared directly.
TopTypes(n) ==
    {st \in {ToSeq(f, n) : f \in [1..n -> TopShapes]} : UniqueNames(st)}

MapValues ==
    {MapV("string", FALSE, {[k |-> key, v |-> IntV(2)] : key \in ks})
        : ks \in {{}, {<<"c">>}, {IdKey, <<"c">>}, {<<"a">>, IdKey, <<"c">>},
                   {<<"a">>, <<"b">>}, {<<"b">>, <<"c">>}}}

RECURSIVE ValuesOfType(_)
RECURSIVE ValuesOfFields(_, _)
ValuesOfField(f) ==
    CASE f.Kind = "int" -> IF IsPrivate(f) THEN {IntV(1)} ELSE {IntV(0), IntV(1)}
      [] f.Kind = "string" -> {StrV(<<>>), StrV(<<"h", "e", "l", "l", "o">>)}
      [] f.Kind = "ptr" -> {NilPtr, PtrTo(IntV(0))}
      [] f.Kind = "map" -> MapValues
      [] f.Kind = "struct" -> ValuesOfType(f.Elem)

ValuesOfFields(st, n) ==
    IF n = 0 THEN {<<>>}
    ELSE {Append(fs, val) : fs \in ValuesOfFields(st, n - 1), val \in ValuesOfField(st[n])}

ValuesOfType(st) == {StructV(st, fs) : fs \in ValuesOfFields(st, Len(st))}

\* Values the resolution loop can end on, or fail on.
BaseValues ==
    {StructV(<<fId, fA>>, <<StrV(<<"h", "e", "l", "l", "o">>), IntV(1)>>),
     StructV(<<fAo, fM>>,
             <<IntV(0), MapV("string", FALSE, {[k |-> <<"b">>, v |-> IntV(2)]})>>),
     StructV(<<fNm, fM>>,
             <<MapV("string", FALSE, {[k |-> <<"x">>, v |-> IntV(1)]}),
               MapV("string", FALSE, {[k |-> <<"c">>, v |-> IntV(2)]})>>),
     StructV(<<fMK>>, <<MapV("K", FALSE, {[k |-> <<"c">>, v |-> IntV(2)]})>>),
     StructV(<<fT>>, <<TimeV(0)>>),
     StructV(<<fR>>, <<RawV(0, "empty", <<>>)>>),
     StructV(<<fR>>, <<RawV(0, "document", <<>>)>>),
     StructV(<<fE>>, <<StructV(<<fA>>, <<IntV(1)>>)>>),
     StructV(<<fEo>>, <<StructV(<<fA>>, <<IntV(0)>>)>>),
     StructV(<<fEo>>, <<StructV(<<fA>>, <<IntV(1)>>)>>),
     StructV(<<fEi>>, <<StructV(<<fA>>, <<IntV(1)>>)>>),
     StructV(<<fEm>>, <<MapV("string", FALSE, {[k |-> <<"c">>, v |-> IntV(2)]})>>),
     StructV(<<fEm>>, <<MapV("string", FALSE, {[k |-> IdKey, v |-> IntV(2)]})>>),
     StructV(<<fEt>>, <<TimeV(0)>>),
     TimeV(1),
     MapV("string", FALSE, {[k |-> IdKey, v |-> StrV(<<"h", "e", "l", "l", "o">>)],
                            [k |-> <<"a">>, v |-> StrV(<<"g", "o", "o", "d", "b", "y", "e">>)]}),
     MapV("K", FALSE, {[k |-> IdKey, v |-> IntV(1)], [k |-> <<"a">>, v |-> IntV(2)]}),
     MapV("int", FALSE, {[k |-> <<"3", "4">>, v |-> StrV(<<"h", "e", "l", "l", "o">>)]}),
     RawV(3, "document", <<DocElemV(<<"a">>, NilInterface), DocElemV(<<"d">>, BoolV(TRUE)),
                           DocElemV(IdKey, IntV(1))>>),
     RawV(3, "malformed", <<>>),
     RawV(0, "empty", <<>>),
     RawV(10, "document", <<>>),
     SliceV(typeDocElem, <<DocElemV(<<"a">>, IntV(1)), DocElemV(IdKey, IntV(2)),
                           DocElemV(<<"a">>, IntV(3))>>),
     SliceV(typeDocElem, <<DocElemV(<<"a">>, FuncV)>>),
     SliceV(NoType, <<IntV(5), NilInterface>>),
     SliceV(NoType, <<>>),
     IntV(34)}

\* Longest chain of pointers and GetBSON hooks in front of a value.
MaxChain == 2

RECURSIVE Chains(_)
Chains(n) ==
    IF n = 0
    THEN BaseValues \cup {NilInterface, NilPtr, GetterV(TRUE, NilInterface, "")}
    ELSE LET inner == Chains(n - 1)
         IN  inner
               \cup {PtrTo(val) : val \in inner \ {NilInterface}}
               \cup {GetterV(FALSE, val, "") : val \in inner}
               \cup {GetterV(FALSE, val, "some error") : val \in inner}

Perms(S) ==
    {q \in [1..Cardinality(S) -> S] : \A i, j \in 1..Cardinality(S) : q[i] = q[j] => i = j}

-----------------------------------------------------------------------------
(* getStructInfo, step by step *)

Threads == 1..NumThreads

\* The goroutine that runs AsUpdate.
Caller == 1

\* One activation of getStructInfo: its argument, its loop counter, the
\* descriptor under construction, its position, and the result of its lookup.
Frame(st) ==
    [st |-> st, i |-> 0, acc |-> EmptyInfo, pc |-> "rlock", found |-> FALSE,
     sinfo |-> NoInfo]

Top(self) == stack[self][Len(stack[self])]

At(self, where) == Len(stack[self]) > 0 /\ Top(self).pc = where

SetTop(self, frame) ==
    stack' = [stack EXCEPT ![self] = [@ EXCEPT ![Len(@)] = frame]]

Return(self, outcome) ==
    /\ stack' = [stack EXCEPT ![self] = SubSeq(@, 1, Len(@) - 1)]
    /\ ret' = [ret EXCEPT ![self] = outcome]

\* sync.RWMutex: RLock is granted while no writer holds the lock, Lock
\* while nobody holds it.
CanRLock(self) == writer = {}

CanLockDespiteReaders(self) == writer = {}

CanLock(self) == writer = {} /\ readers = {}

\* bson.go 110
RLock(self) ==
    /\ At(self, "rlock")
    /\ CanRLock(self)
    /\ readers' = readers \cup {self}
    /\ SetTop(self, [Top(self) EXCEPT !.pc = "lookup"])
    /\ UNCHANGED <<structMap, writer, ret, calls, writes, observed>>
    /\ UNCHANGED seqVars

\* bson.go 111
Lookup(self) ==
    /\ At(self, "lookup")
    /\ LET st == Top(self).st
           found == CacheFound(structMap, st)
           sinfo == IF found THEN MapGet(structMap, st) ELSE NoInfo
       IN  /\ SetTop(self, [Top(self) EXCEPT !.pc = "runlock", !.found = found,
                                             !.sinfo = sinfo])
           /\ observed' = IF found THEN observed \cup {[k |-> st, v |-> sinfo]}
                          ELSE observed
    /\ UNCHANGED <<structMap, readers, writer, ret, calls, writes>>
    /\ UNCHANGED seqVars

\* bson.go 112-115
RUnlock(self) ==
    /\ At(self, "runlock")
    /\ readers' = readers \ {self}
    /\ IF Top(self).found
       THEN Return(self, Outcome("ok", Top(self).sinfo, NoErr))
       ELSE /\ SetTop(self, [Top(self) EXCEPT !.pc = "loop"])
            /\ UNCHANGED ret
    /\ UNCHANGED <<structMap, writer, calls, writes, observed>>
    /\ UNCHANGED seqVars

\* What the frame does with the outcome of one loop iteration.
AfterStep(self, step) ==
    IF step.status = "ok"
    THEN /\ SetTop(self, [Top(self) EXCEPT !.pc = "loop", !.i = @ + 1,
                                           !.acc = step.sinfo])
         /\ UNCHANGED ret
    ELSE Return(self, step)

\* bson.go 120-202 for a field that is not an inlined record.
Field(self) ==
    /\ At(self, "loop")
    /\ Top(self).i < Len(Top(self).st)
    /\ ~NeedsSub(Top(self).st[Top(self).i + 1])
    /\ AfterStep(self, FieldStep(Top(self).st, Top(self).i, Top(self).acc,
                                 Outcome("ok", NoInfo, NoErr)))
    /\ UNCHANGED <<structMap, readers, writer, calls, writes, observed>>
    /\ UNCHANGED seqVars

\* bson.go 166: the recursive call for an inlined record.
SubCall(self) ==
    /\ At(self, "loop")
    /\ Top(self).i < Len(Top(self).st)
    /\ NeedsSub(Top(self).st[Top(self).i + 1])
    /\ stack' = [stack EXCEPT ![self] =
                    Append([@ EXCEPT ![Len(@)] = [Top(self) EXCEPT !.pc = "splice"]],
                           Frame(Top(self).st[Top(self).i + 1].Elem))]
    /\ UNCHANGED <<structMap, readers, writer, ret, calls, writes, observed>>
    /\ UNCHANGED seqVars

\* bson.go 167-182, once the recursive call has returned.
SpliceRet(self) ==
    /\ At(self, "splice")
    /\ AfterStep(self, FieldStep(Top(self).st, Top(self).i, Top(self).acc, ret[self]))
    /\ UNCHANGED <<structMap, readers, writer, calls, writes, observed>>
    /\ UNCHANGED seqVars

\* bson.go 203-209
Lock(self) ==
    /\ At(self, "loop")
    /\ Top(self).i = Len(Top(self).st)
    /\ CanLock(self)
    /\ writer' = writer \cup {self}
    /\ SetTop(self, [Top(self) EXCEPT !.pc = "store"])
    /\ UNCHANGED <<structMap, readers, ret, calls, writes, observed>>
    /\ UNCHANGED seqVars

\* bson.go 210
Store(self) ==
    /\ At(self, "store")
    /\ structMap' = MapPut(structMap, Top(self).st, Top(self).acc)
    /\ writes' = Append(writes, [st |-> Top(self).st, sinfo |-> Top(self).acc,
                                 by |-> self,
                                 excl |-> writer = {self} /\ readers = {}])
    /\ SetTop(self, [Top(self) EXCEPT !.pc = "unlock"])
    /\ UNCHANGED <<readers, writer, ret, calls, observed>>
    /\ UNCHANGED seqVars

\* bson.go 211-212
Unlock(self) ==
    /\ At(self, "unlock")
    /\ writer' = writer \ {self}
    /\ Return(self, Outcome("ok", Top(self).acc, NoErr))
    /\ UNCHANGED <<structMap, readers, calls, writes, observed>>
    /\ UNCHANGED seqVars

ConcIdle ==
    /\ readers = {}
    /\ writer = {}
    /\ stack = [t \in Threads |-> <<>>]
    /\ ret = [t \in Threads |-> Outcome("", NoInfo, NoErr)]
    /\ calls = [t \in Threads |-> FALSE]
    /\ writes = <<>>
    /\ observed = {}

-----------------------------------------------------------------------------
(* AsUpdate, one call *)

\* reflect.ValueOf
ValueOf(i) == IF i = NilInterface THEN Invalid ELSE i

\* (*typeWithGetter).GetBSON (part_000 181-186)
GetBSON(t) ==
    IF t.nil THEN [val |-> StrV(<<"<", "v", "a", "l", "u", "e", " ", "i", "s", " ", "n", "i", "l", ">">>), err |-> ""]
    ELSE [val |-> t.fs[1], err |-> t.s]

\* m.MapKeys() at update.go 121: the keys the iteration over the inline
\* map yields, none when the loop is not reached.
IterKeys(out, val) ==
    IF out.status = "ok" /\ out.sinfo.InlineMap >= 0
    THEN MapKeys(val.fs[out.sinfo.InlineMap + 1].m)
    ELSE {}

Finish(r) ==
    /\ pc' = IF r.status = "panic" THEN "panic" ELSE "done"
    /\ u' = r.u
    /\ err' = r.err

\* update.go 79-87: the value exposes GetBSON.
Hook ==
    /\ pc = "resolve"
    /\ v.kind = "getter"
    /\ hooks' = hooks + 1
    /\ LET r == GetBSON(v)
       IN  IF r.err # ""
           THEN /\ Finish(Result("err", ZeroUpdate,
                                  [GoError("getbson", NoKey, NoType) EXCEPT !.msg = r.err]))
                /\ UNCHANGED <<v, addr>>
           ELSE /\ v' = ValueOf(r.val)
                /\ addr' = FALSE
                /\ UNCHANGED <<pc, u, err>>
    /\ UNCHANGED <<x, structMap>>
    /\ UNCHANGED concVars

\* update.go 88-91: the value is a pointer.
Deref ==
    /\ pc = "resolve"
    /\ v.kind = "ptr"
    /\ v' = IF v.nil THEN Invalid ELSE v.fs[1]
    /\ addr' = ~v.nil
    /\ UNCHANGED <<pc, x, u, err, hooks, structMap>>
    /\ UNCHANGED concVars

\* update.go 79: v.Interface() of the zero reflect.Value panics.
ResolvePanic ==
    /\ pc = "resolve"
    /\ v.kind = "invalid"
    /\ pc' = "panic"
    /\ UNCHANGED <<x, v, u, err, addr, hooks, structMap>>
    /\ UNCHANGED concVars

\* update.go 92: neither applies.
Break ==
    /\ pc = "resolve"
    /\ v.kind \notin {"getter", "ptr", "invalid"}
    /\ pc' = "dispatch"
    /\ UNCHANGED <<x, v, u, err, addr, hooks, structMap>>
    /\ UNCHANGED concVars

\* update.go 94-96: v.Addr() panics on a value that is not addressable.
DispatchRaw ==
    /\ pc = "dispatch"
    /\ v.kind = "struct"
    /\ v.t = typeRaw
    /\ IF addr
       THEN Finish(nonStructAsUpdate(PtrTo(v)))
       ELSE Finish(Result("panic", ZeroUpdate, NoErr))
    /\ UNCHANGED <<x, v, addr, hooks, structMap>>
    /\ UNCHANGED concVars

\* update.go 100-101
DispatchMap ==
    /\ pc = "dispatch"
    /\ v.kind = "map"
    /\ Finish(mapAsUpdate(v))
    /\ UNCHANGED <<x, v, addr, hooks, structMap>>
    /\ UNCHANGED concVars

\* update.go 102-103 and 111: structAsUpdate calls getStructInfo.
DispatchStruct ==
    /\ pc = "dispatch"
    /\ v.kind = "struct"
    /\ v.t # typeRaw
    /\ pc' = "describe"
    /\ stack' = [stack EXCEPT ![Caller] = <<Frame(v.t)>>]
    /\ UNCHANGED <<x, v, u, err, addr, hooks, structMap>>
    /\ UNCHANGED <<readers, writer, ret, calls, writes, observed>>

\* update.go 111-148: getStructInfo has returned.
Convert ==
    /\ pc = "describe"
    /\ stack[Caller] = <<>>
    /\ \E order \in Perms(IterKeys(ret[Caller], v)) :
          Finish(structAsUpdate(ret[Caller], v, order))
    /\ UNCHANGED <<x, v, addr, hooks, structMap>>
    /\ UNCHANGED concVars

\* update.go 104-105
DispatchOther ==
    /\ pc = "dispatch"
    /\ v.kind \notin {"map", "struct"}
    /\ Finish(nonStructAsUpdate(v))
    /\ UNCHANGED <<x, v, addr, hooks, structMap>>
    /\ UNCHANGED concVars

Init ==
    /\ \/ \E n \in 0..MaxFields : \E st \in TopTypes(n) : x \in ValuesOfType(st)
       \/ x \in Chains(MaxChain)
    /\ v = ValueOf(x)
    /\ addr = FALSE
    /\ pc = "resolve"
    /\ u = ZeroUpdate
    /\ err = NoErr
    /\ hooks = 0
    /\ structMap = {}
    /\ ConcIdle

Next ==
    \/ Hook
    \/ Deref
    \/ ResolvePanic
    \/ Break
    \/ DispatchRaw
    \/ DispatchMap
    \/ DispatchStruct
    \/ DispatchOther
    \/ RLock(Caller)
    \/ Lookup(Caller)
    \/ RUnlock(Caller)
    \/ Field(Caller)
    \/ SubCall(Caller)
    \/ SpliceRet(Caller)
    \/ Lock(Caller)
    \/ Store(Caller)
    \/ Unlock(Caller)
    \/ Convert

Spec == Init /\ [][Next]_vars

-----------------------------------------------------------------------------
(* getStructInfo called by several goroutines *)

\* The record types the concurrent callers describe.
ConcTypes ==
    {<<fA, fInline("V", <<fBo>>)>>,
     <<fInline("V", <<fM>>), fInline("W", <<fM>>)>>,
     <<fBo>>,
     <<fInline("V", <<fM>>), fInline("W", <<fM>>), fA, fX>>,
     <<fInline("V", <<fA>>), fX>>}

Call(self) ==
    /\ ~calls[self]
    /\ stack[self] = <<>>
    /\ \E st \in ConcTypes : stack' = [stack EXCEPT ![self] = <<Frame(st)>>]
    /\ calls' = [calls EXCEPT ![self] = TRUE]
    /\ UNCHANGED <<structMap, readers, writer, ret, writes, observed>>
    /\ UNCHANGED seqVars

InitC ==
    /\ x = NilInterface
    /\ v = Invalid
    /\ addr = FALSE
    /\ pc = "idle"
    /\ u = ZeroUpdate
    /\ err = NoErr
    /\ hooks = 0
    /\ structMap = {}
    /\ ConcIdle

NextC ==
    \E self \in Threads :
        \/ Call(self)
        \/ RLock(self)
        \/ Lookup(self)
        \/ RUnlock(self)
        \/ Field(self)
        \/ SubCall(self)
        \/ SpliceRet(self)
        \/ Lock(self)
        \/ Store(self)
        \/ Unlock(self)

SpecC == InitC /\ [][NextC]_vars

-----------------------------------------------------------------------------
(* What a record type and a record mean, read off the declaration alone *)

IsSkipped(f) == IsPrivate(f) \/ (Len(f.Tag) = 1 /\ f.Tag[1] = <<"-">>)

IsInlineRecord(f) == ~IsSkipped(f) /\ "inline" \in TagFlags(f) /\ f.Kind = "struct"

IsInlineMap(f) == ~IsSkipped(f) /\ "inline" \in TagFlags(f) /\ f.Kind = "map"

\* The document keys of a record type in declaration order, those of
\* inlined records in the place of the inlining field.
RECURSIVE DocKeys(_)
DocKeys(st) ==
    IF st = <<>> THEN <<>>
    ELSE LET f == st[Len(st)]
             before == DocKeys(SubSeq(st, 1, Len(st) - 1))
         IN  IF IsSkipped(f) \/ IsInlineMap(f) THEN before
             ELSE IF IsInlineRecord(f) THEN before \o DocKeys(f.Elem)
             ELSE Append(before, FieldKey(f))

DocKeySet(st) == {DocKeys(st)[j] : j \in 1..Len(DocKeys(st))}

\* The keys two fields of the type resolve to.
DupKeys(st) ==
    {DocKeys(st)[j] : j \in {k \in 1..Len(DocKeys(st)) :
                               \E h \in 1..(k - 1) : DocKeys(st)[h] = DocKeys(st)[k]}}

\* The fields of a record with their keys, flags and current values, those
\* of inlined records included.
RECURSIVE Leaves(_, _)
Leaves(val, n) ==
    IF n = 0 THEN <<>>
    ELSE LET f == val.t[n]
             before == Leaves(val, n - 1)
         IN  IF IsSkipped(f) \/ IsInlineMap(f) THEN before
             ELSE IF IsInlineRecord(f)
             THEN before \o Leaves(val.fs[n], Len(val.fs[n].fs))
             ELSE Append(before, [Key |-> FieldKey(f),
                                  OmitEmpty |-> "omitempty" \in TagFlags(f),
                                  value |-> val.fs[n]])

\* The number of inline map fields of a record type, those of inlined
\* records included.
RECURSIVE InlineMapCount(_)
InlineMapCount(st) ==
    IF st = <<>> THEN 0
    ELSE LET f == st[Len(st)]
             before == InlineMapCount(SubSeq(st, 1, Len(st) - 1))
         IN  IF IsInlineMap(f) THEN before + 1
             ELSE IF IsInlineRecord(f) THEN before + InlineMapCount(f.Elem)
             ELSE before

\* The ordinals (1-based) of the inline map fields the type declares directly.
DirectInlineMaps(st) == {i \in 1..Len(st) : IsInlineMap(st[i])}

InlinedTypes(st) == {st[i].Elem : i \in {j \in 1..Len(st) : IsInlineRecord(st[j])}}

Succeeded == pc = "done" /\ err = NoErr

\* The value AsUpdate ended on is a record (and no bson.Raw).
IsRecord == v.kind = "struct" /\ v.t # typeRaw

\* AsUpdate has returned on a record.
OnRecord == pc = "done" /\ IsRecord

\* AsUpdate has returned or aborted on a record whose descriptor was built.
EndedOnDescribed == pc \in {"done", "panic"} /\ IsRecord /\ MapHas(structMap, v.t)

SetKeys == MapKeys(u.Set.m)

UnsetKeys == MapKeys(u.Unset.m)

-----------------------------------------------------------------------------
(* Claims about AsUpdate *)

\* C1: whenever AsUpdate succeeds, on a record, a map or an opaque document,
\* reached directly or through pointers and hooks, "_id" is a key of neither
\* Set nor Unset.
C1_IdentityKeyExcluded ==
    Succeeded => IdKey \notin SetKeys /\ IdKey \notin UnsetKeys

\* A record with a zero, omit-if-empty "_id" field, reached through a hook,
\* and a map holding "_id" have been converted.
C1_Witness ==
    /\ Succeeded
    /\ IsRecord
    /\ \E j \in 1..Len(v.t) : v.t[j] = fId /\ v.fs[j] = StrV(<<>>)
    /\ SetKeys # {}

\* C2: for every record whose descriptor was built and on which AsUpdate
\* reports no error, and every field of it whose key is not "_id", the key
\* is in Unset iff the field is marked omit-if-empty and its value is
\* classified zero, and otherwise the key is in Set with the field's current
\* value, whatever the other fields hold.
C2_Placement ==
    (EndedOnDescribed /\ err = NoErr) =>
        LET L == Leaves(v, Len(v.fs))
        IN  \A j \in 1..Len(L) :
              L[j].Key # IdKey =>
                IF L[j].OmitEmpty /\ isZero(L[j].value, "") = "true"
                THEN L[j].Key \in UnsetKeys /\ L[j].Key \notin SetKeys
                ELSE /\ L[j].Key \in SetKeys
                     /\ MapGet(u.Set.m, L[j].Key) = L[j].value
                     /\ L[j].Key \notin UnsetKeys

\* C3: whenever AsUpdate succeeds, Set and Unset are both made maps and
\* share no key.
C3_InitialisedAndDisjoint ==
    Succeeded => /\ ~u.Set.nil
                 /\ ~u.Unset.nil
                 /\ SetKeys \cap UnsetKeys = {}

\* A record whose inline map contributed to Set and that has nothing to unset.
C3_Witness ==
    /\ Succeeded
    /\ IsRecord
    /\ \E j \in DirectInlineMaps(v.t) : <<"c">> \in MapKeys(v.fs[j].m)
    /\ <<"c">> \in SetKeys
    /\ UnsetKeys = {}

\* The descriptor the cache holds for the record converted.
Descriptor == MapGet(structMap, v.t)

\* The keys of the map held by the field the descriptor designates as the
\* inline map.
InlineMapKeys ==
    IF Descriptor.InlineMap >= 0
    THEN MapKeys(v.fs[Descriptor.InlineMap + 1].m)
    ELSE {}

\* C4 as stated: the keys of Set and Unset together are exactly the document
\* keys of the descriptor without "_id".
C4_KeysAreDescriptorKeys ==
    (Succeeded /\ IsRecord) =>
        SetKeys \cup UnsetKeys = MapKeys(Descriptor.FieldsMap) \ {IdKey}

\* C4 as amended: the keys of Set and Unset together are exactly the document
\* keys of the descriptor and the keys of the map in the field the
\* descriptor designates as the inline map, without "_id".
C4_KeysAreDescriptorAndInlineMapKeys ==
    (Succeeded /\ IsRecord) =>
        SetKeys \cup UnsetKeys =
            (MapKeys(Descriptor.FieldsMap) \cup InlineMapKeys) \ {IdKey}

\* A record with the descriptor keys "a" and "b" and an inline map with the
\* keys "c" and "_id".
C4_Witness ==
    /\ Succeeded
    /\ IsRecord
    /\ Cardinality(MapKeys(Descriptor.FieldsMap)) = 2
    /\ InlineMapKeys = {<<"c">>, IdKey}
    /\ SetKeys \cup UnsetKeys = {<<"a">>, <<"b">>, <<"c">>}

\* C5: the resolution loop never aborts: it ends on a value that is neither
\* a hook nor a pointer, or on the error of the first failing hook.
C5_ResolutionNeverAborts ==
    ~(pc = "panic" /\ v = Invalid)

\* C6: a record type in which two fields resolve to one key, the clash
\* arising between two direct fields, a direct field and an inlined record
\* in either order, or two inlined records, is refused with the
\* duplicate-key error naming a clashing key and the type, and AsUpdate
\* returns that error and no Update. (The inlined records are themselves
\* free of clashes and the type declares at most one inline map, so that no
\* other error precedes.)
C6_DuplicateKeyRefused ==
    (/\ OnRecord
     /\ DupKeys(v.t) # {}
     /\ \A sub \in InlinedTypes(v.t) : DupKeys(sub) = {}
     /\ Cardinality(DirectInlineMaps(v.t)) <= 1) =>
        /\ err.kind = "dup"
        /\ err.key \in DupKeys(v.t)
        /\ err.st = v.t
        /\ u = ZeroUpdate
        /\ ~MapHas(structMap, v.t)

\* Two inlined records sharing the key "a" have been refused.
C6_Witness ==
    /\ OnRecord
    /\ v.t = <<fInline("V", <<fA>>), fInline("W", <<fX>>)>>
    /\ err = GoError("dup", <<"a">>, v.t)

\* C7: for a record whose inline map (the field the descriptor designates)
\* is not empty: if a key of the map is a document key of the record,
\* direct or spliced in, AsUpdate returns the conflict error naming such a
\* key and no Update; otherwise every entry but "_id" is in Set with its
\* value and "_id" is dropped.
C7_InlineMapEntries ==
    EndedOnDescribed =>
        \A i \in DirectInlineMaps(v.t) :
            LET m == v.fs[i].m
                clash == MapKeys(m) \cap DocKeySet(v.t)
            IN  m # {} =>
                  IF clash # {}
                  THEN err.kind = "conflict" /\ err.key \in clash /\ u = ZeroUpdate
                  ELSE /\ err = NoErr
                       /\ \A e \in m :
                            IF e.k = IdKey THEN IdKey \notin SetKeys
                            ELSE e.k \in SetKeys /\ MapGet(u.Set.m, e.k) = e.v

\* C10: a record type with more than one inline map field, declared
\* directly or reached through an inlined record, is refused with the
\* multiple-inline-maps error.
C10_MultipleInlineMapsRefused ==
    (OnRecord /\ InlineMapCount(v.t) > 1 /\ DupKeys(v.t) = {}) =>
        err.kind = "multi_inline"

-----------------------------------------------------------------------------
(* Claims about the descriptor cache under concurrent callers *)

\* C8 as stated: the cache is written at most once for each record type.
C8_WrittenOncePerType ==
    \A i, j \in 1..Len(writes) : writes[i].st = writes[j].st => i = j

\* C8 as amended: each caller writes the cache at most once for each record
\* type, and all the writes for one type store the same descriptor.
C8_WrittenOncePerTypeAndCaller ==
    \A i, j \in 1..Len(writes) :
        writes[i].st = writes[j].st =>
            /\ writes[i].sinfo = writes[j].sinfo
            /\ writes[i].by = writes[j].by => i = j

\* Two callers have each written the descriptor of one type.
C8_Witness ==
    \E i, j \in 1..Len(writes) :
        /\ i # j
        /\ writes[i].st = writes[j].st
        /\ writes[i].by # writes[j].by

\* C9: no read of the cache overlaps an insertion; every insertion is made
\* under the exclusive lock; every entry of the cache, and every entry a
\* lookup has found, is the complete descriptor of its type and is in the
\* cache unmodified; a type whose construction fails is never inserted.
C9_CompleteDescriptorsOnly ==
    /\ ~(readers # {} /\ writer # {})
    /\ Cardinality(writer) <= 1
    /\ \A i \in 1..Len(writes) : writes[i].excl
    /\ \A e \in structMap :
          LET r == getStructInfo({}, e.k).out
          IN  r.status = "ok" /\ e.v = r.sinfo
    /\ \A o \in observed : o \in structMap

\* A lookup has found the descriptor of a type while another caller, having
\* missed it, has built the same descriptor and not yet inserted it, and a
\* type with a duplicate key has been refused.
C9_Witness ==
    /\ \E o \in observed : \E t \in Threads :
          /\ At(t, "loop")
          /\ Top(t).st = o.k
          /\ Top(t).i = Len(Top(t).st)
          /\ Top(t).i > 0
    /\ \E t \in Threads : stack[t] = <<>> /\ ret[t].status = "err"

====
